---------------------------- MODULE Spec2Model ----------------------------
(***************************************************************************)
(* Model of src/src/sage/functions/wigner.py: the shared factorial table   *)
(* _Factlist, _calc_factlist, and the coefficient functions built on it.   *)
(*                                                                         *)
(* Numbers.  Every angular momentum, magnetic number and bound handled by  *)
(* the code is modelled exactly as an integer count of quarters: the model *)
(* value q stands for the number q/4.  Integers are the multiples of 4,    *)
(* half-integers the multiples of 2, and an odd q is a number that is      *)
(* neither (such as 1/4), which the validation of the code must reject.    *)
(* Table indices and table entries are plain integers.                     *)
(*                                                                         *)
(* Values.  A coefficient is a rational times the square root of a         *)
(* rational.  A returned value is kept as sgn * sqrt(num/den) with num/den *)
(* in lowest terms, which is a canonical form of that real number.         *)
(***************************************************************************)
EXTENDS Integers, Sequences, FiniteSets, TLC

VARIABLES
    _Factlist,  \* the module-level list of precomputed factorials
    last,       \* name of the last function run ("init" before any)
    args,       \* arguments of the call under study
    outcome,    \* what the last call returned or raised
    ret,        \* list returned by the last _calc_factlist call
    thr         \* SpecConc: the callers running _calc_factlist concurrently

vars == <<_Factlist, last, args, outcome, ret, thr>>

---------------------------------------------------------------------------
(* Bounds of the model *)

\* largest 2*j (and 2*|m|) drawn for the coefficient functions
MaxTwoJ == 3

\* largest 2*j drawn for racah, wigner_6j and gaunt
MaxTwoR == 2

\* largest integer nn drawn for a direct _calc_factlist call
MaxNN == 7

\* SpecConc: the number of concurrent callers, the largest bound a caller
\* passes to _calc_factlist, and the number of calls a caller makes
NumThreads == 2

MaxThreadNN == 3

MaxCalls == 2

---------------------------------------------------------------------------
(* Python / Sage arithmetic on quarters *)

Abs(x) == IF x < 0 THEN -x ELSE x

Max2(a, b) == IF a >= b THEN a ELSE b

Min2(a, b) == IF a <= b THEN a ELSE b

\* int(x): truncation toward zero; the result is a plain integer
int(x) == IF x >= 0 THEN x \div 4 ELSE -((-x) \div 4)

\* x is an exact integer (what range() and Integer() accept)
IsIntegral(x) == x % 4 = 0

\* the test "int(x * 2) != x * 2" of the validation
NotHalfInteger(x) == 4 * int(x * 2) # x * 2

\* (-1) ** n for a plain integer n
MinusOnePow(n) == IF n % 2 = 0 THEN 1 ELSE -1

Sign(x) == IF x > 0 THEN 1 ELSE IF x < 0 THEN -1 ELSE 0

RECURSIVE GCD(_, _)
GCD(a, b) == IF b = 0 THEN a ELSE GCD(b, a % b)

\* exact rationals, in lowest terms with a positive denominator
Rat(n, d) ==
    LET g == GCD(Abs(n), Abs(d))
        s == IF d < 0 THEN -1 ELSE 1
    IN  [num |-> s * (n \div g), den |-> s * (d \div g)]

RatAdd(a, b) == Rat(a.num * b.den + b.num * a.den, a.den * b.den)

\* product, reduced crosswise before multiplying
RatMul(a, b) ==
    LET g1 == GCD(Abs(a.num), b.den)
        g2 == GCD(Abs(b.num), a.den)
    IN  IF a.num = 0 \/ b.num = 0 THEN [num |-> 0, den |-> 1]
        ELSE [num |-> (a.num \div g1) * (b.num \div g2),
              den |-> (a.den \div g2) * (b.den \div g1)]

---------------------------------------------------------------------------
(* Outcomes of a call *)

\* the value s * sqrt(q), s a sign and q a rational; terms is used by
\* wigner_9j alone
Value(s, q) ==
    IF s = 0 \/ q.num = 0
    THEN [kind |-> "value", sgn |-> 0, num |-> 0, den |-> 1, terms |-> <<>>]
    ELSE [kind |-> "value", sgn |-> s, num |-> q.num, den |-> q.den, terms |-> <<>>]

\* the Python int 0 of "return 0"
Zero == Value(0, Rat(0, 1))

Raise(k) == [kind |-> k, sgn |-> 0, num |-> 0, den |-> 1, terms |-> <<>>]

\* ValueError("j values must be integer or half integer")
JError == Raise("ValueError_j")

\* ValueError("m values must be integer or half integer")
MError == Raise("ValueError_m")

\* TypeError of range() or Integer() on a number that is no integer
TypeError == Raise("TypeError")

\* IndexError of a list subscript out of range
IndexError == Raise("IndexError")

NoOutcome == Raise("none")

\* product of two values a * b (a may be the root of a negative number,
\* kept as a negative radicand)
ValMul(a, b) ==
    Value(a.sgn * b.sgn,
          RatMul([num |-> a.num, den |-> a.den], [num |-> b.num, den |-> b.den]))

\* x.sqrt() of a rational x given as a pair
SqrtOf(q) == Value(1, q)

---------------------------------------------------------------------------
(* The factorial table *)

\* Extend with the new entry computed as F[ii-1] * (ii + 1)
RECURSIVE ExtendOffByOne(_, _)
ExtendOffByOne(F, n) ==
    IF Len(F) > n THEN F
    ELSE ExtendOffByOne(Append(F, F[Len(F)] * (Len(F) + 1)), n)

\* the loop "for ii in range(len(_Factlist), nn + 1): append(F[ii-1] * ii)"
RECURSIVE Extend(_, _)
Extend(F, n) ==
    IF Len(F) > n THEN F
    ELSE Extend(Append(F, F[Len(F)] * Len(F)), n)

\* the slice F[:k] of Python, for any integer k
Slice(F, k) ==
    IF k >= 0 THEN SubSeq(F, 1, Min2(k, Len(F)))
    ELSE SubSeq(F, 1, Max2(Len(F) + k, 0))

\* _calc_factlist that keeps only the returned slice as the table
_calc_factlist_truncating(F, nn) ==
    IF ~IsIntegral(nn) THEN [err |-> TRUE, fact |-> F, ret |-> <<>>]
    ELSE LET G == Slice(Extend(F, int(nn)), int(nn) + 1)
         IN  [err |-> FALSE, fact |-> IF G = <<>> THEN F ELSE G, ret |-> G]

\* _calc_factlist returning the whole table
_calc_factlist_whole(F, nn) ==
    IF ~IsIntegral(nn) THEN [err |-> TRUE, fact |-> F, ret |-> <<>>]
    ELSE IF nn >= 4 * Len(F)
    THEN [err |-> FALSE, fact |-> Extend(F, int(nn)), ret |-> Extend(F, int(nn))]
    ELSE [err |-> FALSE, fact |-> F, ret |-> F]

\* _calc_factlist with the test "nn > len(_Factlist)"
_calc_factlist_strict(F, nn) ==
    IF ~IsIntegral(nn) THEN [err |-> TRUE, fact |-> F, ret |-> <<>>]
    ELSE IF nn > 4 * Len(F)
    THEN [err |-> FALSE, fact |-> Extend(F, int(nn)),
          ret |-> Slice(Extend(F, int(nn)), int(nn) + 1)]
    ELSE [err |-> FALSE, fact |-> F, ret |-> Slice(F, int(nn) + 1)]

\* _calc_factlist(nn) run on table F: the table after it, the list
\* returned, and the error raised if any
_calc_factlist(F, nn) ==
    IF nn >= 4 * Len(F)
    THEN IF ~IsIntegral(nn)
         THEN [err |-> TRUE, fact |-> F, ret |-> <<>>]
         ELSE LET G == Extend(F, int(nn))
              IN  [err |-> FALSE, fact |-> G, ret |-> Slice(G, int(nn) + 1)]
    ELSE IF ~IsIntegral(nn)
         THEN [err |-> TRUE, fact |-> F, ret |-> <<>>]
         ELSE [err |-> FALSE, fact |-> F, ret |-> Slice(F, int(nn) + 1)]

\* the subscript F[i] of Python: negative i counts from the end
InRange(F, i) == -Len(F) <= i /\ i < Len(F)

Get(F, i) == IF i >= 0 THEN F[i + 1] ELSE F[Len(F) + i + 1]

---------------------------------------------------------------------------
(* wigner_3j and clebsch_gordan *)

Max4(a, b, c, d) == Max2(Max2(a, b), Max2(c, d))

Max3(a, b, c) == Max2(Max2(a, b), c)

Min3(a, b, c) == Min2(Min2(a, b), c)

\* the indices of the summand with ii + j_3 - j_1 + m_2 as the second
SummandIdx3jTypo(ii, j_1, j_2, j_3, m_1, m_2, m_3) ==
    << ii,
       int(4 * ii + j_3 - j_1 + m_2),
       int(j_2 + m_2 - 4 * ii),
       int(j_1 - 4 * ii - m_1),
       int(4 * ii + j_3 - j_2 + m_1),
       int(j_1 + j_2 - j_3 - 4 * ii) >>

\* the six factorial indices of the summand ii of wigner_3j; m_3 is the
\* negated m_3 of the code
SummandIdx3j(ii, j_1, j_2, j_3, m_1, m_2, m_3) ==
    << ii,
       int(4 * ii + j_3 - j_1 - m_2),
       int(j_2 + m_2 - 4 * ii),
       int(j_1 - 4 * ii - m_1),
       int(4 * ii + j_3 - j_2 + m_1),
       int(j_1 + j_2 - j_3 - 4 * ii) >>

\* the ten factorial indices of argsqrt; m_3 is the negated m_3
ArgsqrtIdx3j(j_1, j_2, j_3, m_1, m_2, m_3) ==
    << int(j_1 + j_2 - j_3), int(j_1 - j_2 + j_3), int(-j_1 + j_2 + j_3),
       int(j_1 - m_1), int(j_1 + m_1), int(j_2 - m_2), int(j_2 + m_2),
       int(j_3 - m_3), int(j_3 + m_3), int(j_1 + j_2 + j_3 + 4) >>

\* the six factorial arguments of the summand ii as the code writes them,
\* before int() is taken, in quarters; m_3 is the negated m_3 of the code
SummandArgs3j(ii, j_1, j_2, j_3, m_1, m_2, m_3) ==
    << 4 * ii,
       4 * ii + j_3 - j_1 - m_2,
       j_2 + m_2 - 4 * ii,
       j_1 - 4 * ii - m_1,
       4 * ii + j_3 - j_2 + m_1,
       j_1 + j_2 - j_3 - 4 * ii >>

\* the ten factorial arguments of argsqrt before int() is taken, in quarters
ArgsqrtArgs3j(j_1, j_2, j_3, m_1, m_2, m_3) ==
    << j_1 + j_2 - j_3, j_1 - j_2 + j_3, -j_1 + j_2 + j_3,
       j_1 - m_1, j_1 + m_1, j_2 - m_2, j_2 + m_2,
       j_3 - m_3, j_3 + m_3, j_1 + j_2 + j_3 + 4 >>

\* product of the table entries at the indices idx[lo..hi]
RECURSIVE FactProd(_, _, _, _)
FactProd(F, idx, lo, hi) ==
    IF lo > hi THEN 1 ELSE Get(F, idx[lo]) * FactProd(F, idx, lo + 1, hi)

\* the loop "for ii in range(imin, imax + 1): sumres += (-1)**ii / den"
RECURSIVE SumRes3j(_, _, _, _, _, _, _, _, _)
SumRes3j(F, ii, imax, j_1, j_2, j_3, m_1, m_2, m_3) ==
    IF ii > imax THEN Rat(0, 1)
    ELSE RatAdd(Rat(MinusOnePow(ii),
                    FactProd(F, SummandIdx3j(ii, j_1, j_2, j_3, m_1, m_2, m_3), 1, 6)),
                SumRes3j(F, ii + 1, imax, j_1, j_2, j_3, m_1, m_2, m_3))

\* the sign taken as (-1) ** int(j_1 - j_2 + m_3)
PrefidPlus(j_1, j_2, m_3) == MinusOnePow(int(j_1 - j_2 + m_3))

\* the sign (-1) ** int(j_1 - j_2 - m_3), taken before m_3 is negated
Prefid(j_1, j_2, m_3) == MinusOnePow(int(j_1 - j_2 - m_3))

\* the bound passed to _calc_factlist (m_3 negated or not: abs() is taken)
Maxfact3j(j_1, j_2, j_3, m_1, m_2, m_3) ==
    Max4(j_1 + j_2 + j_3 + 4, j_1 + Abs(m_1), j_2 + Abs(m_2), j_3 + Abs(m_3))

\* imin with the signs of j_3, j_1 and j_2 exchanged
Imin3jFlipped(j_1, j_2, j_3, m_1, m_2) ==
    int(Max3(j_3 - j_1 + m_2, j_3 - j_2 - m_1, 0))

\* the first summand index of wigner_3j
Imin3j(j_1, j_2, j_3, m_1, m_2) ==
    int(Max3(-j_3 + j_1 + m_2, -j_3 + j_2 - m_1, 0))

\* the last summand index of wigner_3j
Imax3j(j_1, j_2, j_3, m_1, m_2) ==
    int(Min3(j_2 + m_2, j_1 - m_1, j_1 + j_2 - j_3))

\* wigner_3j after its call of _calc_factlist, which gave c; m_3 is the
\* negated m_3, prefid the sign taken before
Finish3j(c, prefid, j_1, j_2, j_3, m_1, m_2, m_3) ==
    LET aidx == ArgsqrtIdx3j(j_1, j_2, j_3, m_1, m_2, m_3)
        imin == Imin3j(j_1, j_2, j_3, m_1, m_2)
        imax == Imax3j(j_1, j_2, j_3, m_1, m_2)
        idxOK ==
            /\ \A k \in 1..10 : InRange(c.fact, aidx[k])
            /\ \A ii \in imin..imax : \A k \in 1..6 :
                  InRange(c.fact, SummandIdx3j(ii, j_1, j_2, j_3, m_1, m_2, m_3)[k])
        argsqrt == Rat(FactProd(c.fact, aidx, 1, 9), Get(c.fact, aidx[10]))
        sumres == SumRes3j(c.fact, imin, imax, j_1, j_2, j_3, m_1, m_2, m_3)
    IN  IF c.err THEN [out |-> TypeError, fact |-> c.fact]
        ELSE IF ~idxOK THEN [out |-> IndexError, fact |-> c.fact]
        ELSE [out |-> Value(Sign(sumres.num) * prefid,
                            RatMul(RatMul(argsqrt, sumres), sumres)),
              fact |-> c.fact]

\* wigner_3j from the call of _calc_factlist on, on table F
Compute3j(F, prefid, j_1, j_2, j_3, m_1, m_2, m_3) ==
    Finish3j(_calc_factlist(F, Maxfact3j(j_1, j_2, j_3, m_1, m_2, m_3)),
             prefid, j_1, j_2, j_3, m_1, m_2, m_3)

\* wigner_3j without the rule "m_1 + m_2 + m_3 != 0"
wigner_3j_no_sum_rule(F, j_1, j_2, j_3, m_1, m_2, m_3) ==
    IF NotHalfInteger(j_1) \/ NotHalfInteger(j_2) \/ NotHalfInteger(j_3)
    THEN [out |-> JError, fact |-> F]
    ELSE IF NotHalfInteger(m_1) \/ NotHalfInteger(m_2) \/ NotHalfInteger(m_3)
    THEN [out |-> MError, fact |-> F]
    ELSE IF j_1 + j_2 - j_3 < 0 \/ j_1 - j_2 + j_3 < 0 \/ -j_1 + j_2 + j_3 < 0
    THEN [out |-> Zero, fact |-> F]
    ELSE IF Abs(m_1) > j_1 \/ Abs(m_2) > j_2 \/ Abs(-m_3) > j_3
    THEN [out |-> Zero, fact |-> F]
    ELSE Compute3j(F, Prefid(j_1, j_2, m_3), j_1, j_2, j_3, m_1, m_2, -m_3)

\* wigner_3j with the m arguments validated before the j arguments
wigner_3j_m_first(F, j_1, j_2, j_3, m_1, m_2, m_3) ==
    IF NotHalfInteger(m_1) \/ NotHalfInteger(m_2) \/ NotHalfInteger(m_3)
    THEN [out |-> MError, fact |-> F]
    ELSE IF NotHalfInteger(j_1) \/ NotHalfInteger(j_2) \/ NotHalfInteger(j_3)
    THEN [out |-> JError, fact |-> F]
    ELSE IF m_1 + m_2 + m_3 # 0
    THEN [out |-> Zero, fact |-> F]
    ELSE IF j_1 + j_2 - j_3 < 0 \/ j_1 - j_2 + j_3 < 0 \/ -j_1 + j_2 + j_3 < 0
    THEN [out |-> Zero, fact |-> F]
    ELSE IF Abs(m_1) > j_1 \/ Abs(m_2) > j_2 \/ Abs(-m_3) > j_3
    THEN [out |-> Zero, fact |-> F]
    ELSE Compute3j(F, Prefid(j_1, j_2, m_3), j_1, j_2, j_3, m_1, m_2, -m_3)

\* wigner_3j(j_1, j_2, j_3, m_1, m_2, m_3) run on table F: what it returns
\* or raises, and the table after it
wigner_3j(F, j_1, j_2, j_3, m_1, m_2, m_3) ==
    IF NotHalfInteger(j_1) \/ NotHalfInteger(j_2) \/ NotHalfInteger(j_3)
    THEN [out |-> JError, fact |-> F]
    ELSE IF NotHalfInteger(m_1) \/ NotHalfInteger(m_2) \/ NotHalfInteger(m_3)
    THEN [out |-> MError, fact |-> F]
    ELSE IF m_1 + m_2 + m_3 # 0
    THEN [out |-> Zero, fact |-> F]
    ELSE IF j_1 + j_2 - j_3 < 0
    THEN [out |-> Zero, fact |-> F]
    ELSE IF j_1 - j_2 + j_3 < 0
    THEN [out |-> Zero, fact |-> F]
    ELSE IF -j_1 + j_2 + j_3 < 0
    THEN [out |-> Zero, fact |-> F]
    ELSE IF Abs(m_1) > j_1 \/ Abs(m_2) > j_2 \/ Abs(-m_3) > j_3
    THEN [out |-> Zero, fact |-> F]
    ELSE Compute3j(F, Prefid(j_1, j_2, m_3), j_1, j_2, j_3, m_1, m_2, -m_3)

\* the factor taken with the square root of 2 * j_3
PhaseCGNoPlusOne(j_1, j_2, j_3, m_3) ==
    Value(MinusOnePow(int(j_1 - j_2 + m_3)), Rat(2 * j_3, 4))

\* the factor (-1) ** int(j_1 - j_2 + m_3) * (2 * j_3 + 1).sqrt(prec)
PhaseCG(j_1, j_2, j_3, m_3) ==
    Value(MinusOnePow(int(j_1 - j_2 + m_3)), Rat(2 * j_3 + 4, 4))

\* the product "factor * r" where r is the outcome of a call: an error
\* raised by the call is raised by the product
Times(factor, r) ==
    IF r.out.kind # "value" THEN r
    ELSE [out |-> ValMul(factor, r.out), fact |-> r.fact]

\* clebsch_gordan(j_1, j_2, j_3, m_1, m_2, m_3) run on table F
clebsch_gordan(F, j_1, j_2, j_3, m_1, m_2, m_3) ==
    Times(PhaseCG(j_1, j_2, j_3, m_3),
          wigner_3j(F, j_1, j_2, j_3, m_1, m_2, -m_3))

---------------------------------------------------------------------------
(* _big_delta_coeff, racah, wigner_6j and wigner_9j *)

\* ValueError("j values must be integer or half integer and fulfill the
\* triangle relation")
TriangleError == Raise("ValueError_triangle")

\* the test "int(x) != x"
NotInteger(x) == 4 * int(x) # x

\* _big_delta_coeff after its call of _calc_factlist, which gave c
FinishDelta(c, aa, bb, cc) ==
    LET idx == << int(aa + bb - cc), int(aa + cc - bb), int(bb + cc - aa),
                  int(aa + bb + cc + 4) >>
    IN  IF c.err THEN [out |-> TypeError, fact |-> c.fact]
        ELSE IF \E k \in 1..4 : ~InRange(c.fact, idx[k])
        THEN [out |-> IndexError, fact |-> c.fact]
        ELSE [out |-> SqrtOf(Rat(FactProd(c.fact, idx, 1, 3), Get(c.fact, idx[4]))),
              fact |-> c.fact]

\* _big_delta_coeff without the three "< 0" tests
_big_delta_coeff_unsigned(F, aa, bb, cc) ==
    IF NotInteger(aa + bb - cc) \/ NotInteger(aa + cc - bb) \/ NotInteger(bb + cc - aa)
    THEN [out |-> TriangleError, fact |-> F]
    ELSE FinishDelta(
             _calc_factlist(F, Max4(aa + bb - cc, aa + cc - bb, bb + cc - aa,
                                    aa + bb + cc + 4)),
             aa, bb, cc)

\* _big_delta_coeff with the three signs tested before the three integers
_big_delta_coeff_sign_first(F, aa, bb, cc) ==
    IF aa + bb - cc < 0 \/ aa + cc - bb < 0 \/ bb + cc - aa < 0
    THEN [out |-> Zero, fact |-> F]
    ELSE IF NotInteger(aa + bb - cc) \/ NotInteger(aa + cc - bb) \/ NotInteger(bb + cc - aa)
    THEN [out |-> TriangleError, fact |-> F]
    ELSE FinishDelta(
             _calc_factlist(F, Max4(aa + bb - cc, aa + cc - bb, bb + cc - aa,
                                    aa + bb + cc + 4)),
             aa, bb, cc)

\* _big_delta_coeff(aa, bb, cc) run on table F
_big_delta_coeff(F, aa, bb, cc) ==
    IF NotInteger(aa + bb - cc) \/ NotInteger(aa + cc - bb) \/ NotInteger(bb + cc - aa)
    THEN [out |-> TriangleError, fact |-> F]
    ELSE IF aa + bb - cc < 0 \/ aa + cc - bb < 0 \/ bb + cc - aa < 0
    THEN [out |-> Zero, fact |-> F]
    ELSE FinishDelta(
             _calc_factlist(F, Max4(aa + bb - cc, aa + cc - bb, bb + cc - aa,
                                    aa + bb + cc + 4)),
             aa, bb, cc)

\* the eight factorial indices of the summand kk of racah; the last is kk + 1
SummandIdxRacah(kk, aa, bb, cc, dd, ee, ff) ==
    << int(4 * kk - aa - bb - ee), int(4 * kk - cc - dd - ee),
       int(4 * kk - aa - cc - ff), int(4 * kk - bb - dd - ff),
       int(aa + bb + cc + dd - 4 * kk), int(aa + dd + ee + ff - 4 * kk),
       int(bb + cc + ee + ff - 4 * kk), kk + 1 >>

\* the loop of racah with every summand added with the sign +
RECURSIVE SumResRacahNoSign(_, _, _, _, _, _, _, _, _)
SumResRacahNoSign(F, kk, imax, aa, bb, cc, dd, ee, ff) ==
    IF kk > imax THEN Rat(0, 1)
    ELSE LET idx == SummandIdxRacah(kk, aa, bb, cc, dd, ee, ff)
         IN  RatAdd(Rat(Get(F, idx[8]), FactProd(F, idx, 1, 7)),
                    SumResRacahNoSign(F, kk + 1, imax, aa, bb, cc, dd, ee, ff))

\* the loop "for kk in range(imin, imax + 1)" of racah
RECURSIVE SumResRacah(_, _, _, _, _, _, _, _, _)
SumResRacah(F, kk, imax, aa, bb, cc, dd, ee, ff) ==
    IF kk > imax THEN Rat(0, 1)
    ELSE LET idx == SummandIdxRacah(kk, aa, bb, cc, dd, ee, ff)
         IN  RatAdd(Rat(MinusOnePow(kk) * Get(F, idx[8]), FactProd(F, idx, 1, 7)),
                    SumResRacah(F, kk + 1, imax, aa, bb, cc, dd, ee, ff))

\* the first summand index of racah
IminRacah(aa, bb, cc, dd, ee, ff) ==
    int(Max4(aa + bb + ee, cc + dd + ee, aa + cc + ff, bb + dd + ff))

\* the last summand index of racah
ImaxRacah(aa, bb, cc, dd, ee, ff) ==
    int(Min3(aa + bb + cc + dd, aa + dd + ee + ff, bb + cc + ee + ff))

\* the eight factorial arguments of the summand kk of racah as the code
\* writes them, before int() is taken, in quarters; the last is kk + 1
SummandArgsRacah(kk, aa, bb, cc, dd, ee, ff) ==
    << 4 * kk - aa - bb - ee, 4 * kk - cc - dd - ee,
       4 * kk - aa - cc - ff, 4 * kk - bb - dd - ff,
       aa + bb + cc + dd - 4 * kk, aa + dd + ee + ff - 4 * kk,
       bb + cc + ee + ff - 4 * kk, 4 * (kk + 1) >>

\* the bound without the term imax + 1
MaxfactRacahNoImax(aa, bb, cc, dd, ee, ff) ==
    Max3(aa + bb + cc + dd, aa + dd + ee + ff, bb + cc + ee + ff)

\* the bound racah passes to _calc_factlist
MaxfactRacah(aa, bb, cc, dd, ee, ff) ==
    Max4(4 * (ImaxRacah(aa, bb, cc, dd, ee, ff) + 1),
         aa + bb + cc + dd, aa + dd + ee + ff, bb + cc + ee + ff)

\* racah after its call of _calc_factlist, which gave c, with the nonzero
\* prefactor prefac
FinishRacah(c, prefac, aa, bb, cc, dd, ee, ff) ==
    LET imin == IminRacah(aa, bb, cc, dd, ee, ff)
        imax == ImaxRacah(aa, bb, cc, dd, ee, ff)
        idxOK == \A kk \in imin..imax : \A k \in 1..8 :
                    InRange(c.fact, SummandIdxRacah(kk, aa, bb, cc, dd, ee, ff)[k])
        sumres == SumResRacah(c.fact, imin, imax, aa, bb, cc, dd, ee, ff)
    IN  IF c.err THEN [out |-> TypeError, fact |-> c.fact]
        ELSE IF ~idxOK THEN [out |-> IndexError, fact |-> c.fact]
        ELSE [out |-> Value(Sign(sumres.num) * MinusOnePow(int(aa + bb + cc + dd)),
                            RatMul(RatMul([num |-> prefac.num, den |-> prefac.den],
                                          sumres), sumres)),
              fact |-> c.fact]

\* racah after the four Delta coefficients, whose product gave p
AfterDeltas(p, aa, bb, cc, dd, ee, ff) ==
    IF p.out.kind # "value" THEN p
    ELSE IF p.out.sgn = 0 THEN [out |-> Zero, fact |-> p.fact]
    ELSE FinishRacah(_calc_factlist(p.fact, MaxfactRacah(aa, bb, cc, dd, ee, ff)),
                     p.out, aa, bb, cc, dd, ee, ff)

\* the product of _big_delta_coeff over the triads k, k+1, ... times acc:
\* the coefficients are computed one after the other, each on the table the
\* one before left, and the first that raises ends the product
RECURSIVE DeltaProduct(_, _, _, _)
RECURSIVE DeltaStep(_, _, _, _)
DeltaStep(d, triads, k, acc) ==
    IF d.out.kind # "value" THEN d
    ELSE DeltaProduct(d.fact, triads, k + 1, ValMul(acc, d.out))

DeltaProduct(F, triads, k, acc) ==
    IF k > Len(triads) THEN [out |-> acc, fact |-> F]
    ELSE DeltaStep(_big_delta_coeff(F, triads[k][1], triads[k][2], triads[k][3]),
                   triads, k, acc)

\* racah(aa, bb, cc, dd, ee, ff) run on table F
racah(F, aa, bb, cc, dd, ee, ff) ==
    AfterDeltas(DeltaProduct(F, << <<aa, bb, ee>>, <<cc, dd, ee>>,
                                   <<aa, cc, ff>>, <<bb, dd, ff>> >>,
                             1, Value(1, Rat(1, 1))),
                aa, bb, cc, dd, ee, ff)

\* wigner_6j with the sign (-1) ** int(j_1 + j_2 + j_3 + j_4)
wigner_6j_other_sign(F, j_1, j_2, j_3, j_4, j_5, j_6) ==
    Times(Value(MinusOnePow(int(j_1 + j_2 + j_3 + j_4)), Rat(1, 1)),
          racah(F, j_1, j_2, j_5, j_4, j_3, j_6))

\* wigner_6j(j_1, ..., j_6) run on table F
wigner_6j(F, j_1, j_2, j_3, j_4, j_5, j_6) ==
    Times(Value(MinusOnePow(int(j_1 + j_2 + j_4 + j_5)), Rat(1, 1)),
          racah(F, j_1, j_2, j_5, j_4, j_3, j_6))

\* the product of racah over the calls k, k+1, ... times acc, computed one
\* after the other like the Delta coefficients of racah
RECURSIVE RacahProduct(_, _, _, _)
RECURSIVE RacahStep(_, _, _, _)
RacahStep(r, calls, k, acc) ==
    IF r.out.kind # "value" THEN r
    ELSE RacahProduct(r.fact, calls, k + 1, ValMul(acc, r.out))

RacahProduct(F, calls, k, acc) ==
    IF k > Len(calls) THEN [out |-> acc, fact |-> F]
    ELSE RacahStep(racah(F, calls[k][1], calls[k][2], calls[k][3],
                         calls[k][4], calls[k][5], calls[k][6]),
                   calls, k, acc)

\* the term kk of wigner_9j, (2 * kk + 1) * racah * racah * racah, on table F
Term9j(F, kk, j) ==
    RacahProduct(F, << <<j[1], j[2], j[9], j[6], j[3], 4 * kk>>,
                       <<j[4], j[6], j[8], j[2], j[5], 4 * kk>>,
                       <<j[1], j[4], j[9], j[8], j[7], 4 * kk>> >>,
                 1, Value(1, Rat((2 * kk + 1) * (2 * kk + 1), 1)))

\* the value of a sum of nonzero terms: a sum of square roots has no
\* single radicand, so the terms are kept, in the order they were added
SumOf(terms) ==
    IF terms = <<>> THEN Zero
    ELSE [kind |-> "sum", sgn |-> 0, num |-> 0, den |-> 1, terms |-> terms]

\* the loop "for kk in range(imin, imax + 1)" of wigner_9j
RECURSIVE Loop9j(_, _, _, _, _)
RECURSIVE Step9j(_, _, _, _, _)
Step9j(t, kk, imax, j, terms) ==
    IF t.out.kind # "value" THEN t
    ELSE Loop9j(t.fact, kk + 1, imax, j,
                IF t.out.sgn = 0 THEN terms ELSE Append(terms, t.out))

Loop9j(F, kk, imax, j, terms) ==
    IF kk > imax THEN [out |-> SumOf(terms), fact |-> F]
    ELSE Step9j(Term9j(F, kk, j), kk, imax, j, terms)

\* wigner_9j(j_1, ..., j_9) run on table F, j the tuple of its arguments
wigner_9j(F, j) ==
    Loop9j(F, 0, int(Min3(j[1] + j[9], j[2] + j[6], j[4] + j[8])), j, <<>>)

---------------------------------------------------------------------------
(* gaunt *)

\* the six factorial indices of the summand ii of gaunt
SummandIdxGaunt(ii, l_1, l_2, l_3, m_1, m_2) ==
    << ii,
       int(4 * ii + l_3 - l_1 - m_2),
       int(l_2 + m_2 - 4 * ii),
       int(l_1 - 4 * ii - m_1),
       int(4 * ii + l_3 - l_2 + m_1),
       int(l_1 + l_2 - l_3 - 4 * ii) >>

\* the loop of gaunt with every summand added with the sign +
RECURSIVE SumResGauntNoSign(_, _, _, _, _, _, _, _)
SumResGauntNoSign(F, ii, imax, l_1, l_2, l_3, m_1, m_2) ==
    IF ii > imax THEN Rat(0, 1)
    ELSE RatAdd(Rat(1, FactProd(F, SummandIdxGaunt(ii, l_1, l_2, l_3, m_1, m_2), 1, 6)),
                SumResGauntNoSign(F, ii + 1, imax, l_1, l_2, l_3, m_1, m_2))

\* the loop "for ii in range(imin, imax + 1)" of gaunt
RECURSIVE SumResGaunt(_, _, _, _, _, _, _, _)
SumResGaunt(F, ii, imax, l_1, l_2, l_3, m_1, m_2) ==
    IF ii > imax THEN Rat(0, 1)
    ELSE RatAdd(Rat(MinusOnePow(ii),
                    FactProd(F, SummandIdxGaunt(ii, l_1, l_2, l_3, m_1, m_2), 1, 6)),
                SumResGaunt(F, ii + 1, imax, l_1, l_2, l_3, m_1, m_2))

\* a nonzero value sgn * sqrt(num/den) / sqrt(pi)
ValuePerSqrtPi(s, q) ==
    IF s = 0 \/ q.num = 0 THEN Zero
    ELSE [kind |-> "value_per_sqrt_pi", sgn |-> s, num |-> q.num, den |-> q.den,
          terms |-> <<>>]

\* the first summand index of gaunt
IminGaunt(l_1, l_2, l_3, m_1, m_2) ==
    int(Max3(-l_3 + l_1 + m_2, -l_3 + l_2 - m_1, 0))

\* the last summand index of gaunt
ImaxGaunt(l_1, l_2, l_3, m_1, m_2) ==
    int(Min3(l_2 + m_2, l_1 - m_1, l_1 + l_2 - l_3))

\* gaunt after its call of _calc_factlist, which gave c; bigL is
\* (l_1 + l_2 + l_3) / 2
FinishGaunt(c, bigL, l_1, l_2, l_3, m_1, m_2, m_3) ==
    LET imin == IminGaunt(l_1, l_2, l_3, m_1, m_2)
        imax == ImaxGaunt(l_1, l_2, l_3, m_1, m_2)
        sidx == << int(l_1 - m_1), int(l_1 + m_1), int(l_2 - m_2), int(l_2 + m_2),
                   int(l_3 - m_3), int(l_3 + m_3) >>
        pidx == << int(bigL), int(l_2 - l_1 + l_3), int(l_1 - l_2 + l_3),
                   int(l_1 + l_2 - l_3), int(2 * bigL + 4),
                   int(bigL - l_1), int(bigL - l_2), int(bigL - l_3) >>
        idxOK ==
            /\ \A k \in 1..6 : InRange(c.fact, sidx[k])
            /\ \A k \in 1..8 : InRange(c.fact, pidx[k])
            /\ \A ii \in imin..imax : \A k \in 1..6 :
                  InRange(c.fact, SummandIdxGaunt(ii, l_1, l_2, l_3, m_1, m_2)[k])
        \* argsqrt * pi
        argsqrt == Rat((int(2 * l_1) + 1) * (int(2 * l_2) + 1) * (int(2 * l_3) + 1)
                           * FactProd(c.fact, sidx, 1, 6), 4)
        prefac == RatMul(Rat(FactProd(c.fact, pidx, 1, 4), Get(c.fact, pidx[5])),
                         Rat(1, FactProd(c.fact, pidx, 6, 8)))
        sumres == SumResGaunt(c.fact, imin, imax, l_1, l_2, l_3, m_1, m_2)
        ps == RatMul(prefac, sumres)
    IN  IF c.err THEN [out |-> TypeError, fact |-> c.fact]
        ELSE IF ~idxOK THEN [out |-> IndexError, fact |-> c.fact]
        ELSE [out |-> ValuePerSqrtPi(
                          Sign(ps.num) * MinusOnePow(int(bigL + l_3 + m_1 - m_2)),
                          RatMul(RatMul(argsqrt, ps), ps)),
              fact |-> c.fact]

\* gaunt from "imin = ..." on, on table F
ComputeGaunt(F, bigL, l_1, l_2, l_3, m_1, m_2, m_3) ==
    FinishGaunt(_calc_factlist(F, Max2(l_1 + l_2 + l_3 + 4,
                                       4 * (ImaxGaunt(l_1, l_2, l_3, m_1, m_2) + 1))),
                bigL, l_1, l_2, l_3, m_1, m_2, m_3)

\* gaunt with _calc_factlist(l_1 + l_2 + l_3 + 1) called before the rules
gaunt_eager(F, l_1, l_2, l_3, m_1, m_2, m_3) ==
    IF \E x \in {l_1, l_2, l_3, m_1, m_2, m_3} : ~IsIntegral(x)
    THEN [out |-> TypeError, fact |-> F]
    ELSE IF \/ l_1 + l_2 - l_3 < 0 \/ l_1 - l_2 + l_3 < 0 \/ -l_1 + l_2 + l_3 < 0
            \/ (l_1 + l_2 + l_3) % 8 # 0
            \/ m_1 + m_2 + m_3 # 0
            \/ Abs(m_1) > l_1 \/ Abs(m_2) > l_2 \/ Abs(m_3) > l_3
    THEN [out |-> Zero, fact |-> _calc_factlist(F, l_1 + l_2 + l_3 + 4).fact]
    ELSE ComputeGaunt(F, (l_1 + l_2 + l_3) \div 2, l_1, l_2, l_3, m_1, m_2, m_3)

\* gaunt(l_1, l_2, l_3, m_1, m_2, m_3) run on table F
gaunt(F, l_1, l_2, l_3, m_1, m_2, m_3) ==
    IF \E x \in {l_1, l_2, l_3, m_1, m_2, m_3} : ~IsIntegral(x)
    THEN [out |-> TypeError, fact |-> F]
    ELSE IF l_1 + l_2 - l_3 < 0
    THEN [out |-> Zero, fact |-> F]
    ELSE IF l_1 - l_2 + l_3 < 0
    THEN [out |-> Zero, fact |-> F]
    ELSE IF -l_1 + l_2 + l_3 < 0
    THEN [out |-> Zero, fact |-> F]
    ELSE IF (l_1 + l_2 + l_3) % 8 # 0
    THEN [out |-> Zero, fact |-> F]
    ELSE IF m_1 + m_2 + m_3 # 0
    THEN [out |-> Zero, fact |-> F]
    ELSE IF Abs(m_1) > l_1 \/ Abs(m_2) > l_2 \/ Abs(m_3) > l_3
    THEN [out |-> Zero, fact |-> F]
    ELSE ComputeGaunt(F, (l_1 + l_2 + l_3) \div 2, l_1, l_2, l_3, m_1, m_2, m_3)

---------------------------------------------------------------------------
(* Inputs *)

\* n!
RECURSIVE Factorial(_)
Factorial(n) == IF n <= 0 THEN 1 ELSE n * Factorial(n - 1)

\* the factorial table [0!, 1!, ..., n!], the state any earlier calls reaching
\* index n leave
Table(n) == [i \in 1..(n + 1) |-> Factorial(i - 1)]

\* j arguments: 0, 1/2, ..., MaxTwoJ/2, the negative -1/2, and 1/4, which
\* is neither an integer nor a half-integer
JVals == {2 * k : k \in 0..MaxTwoJ} \cup {-2, 1}

\* m arguments: -MaxTwoJ/2, ..., MaxTwoJ/2, and 1/4
MVals == {2 * k : k \in -MaxTwoJ..MaxTwoJ} \cup {1}

\* arguments of racah, wigner_6j and gaunt: 0, 1/2, ..., MaxTwoR/2 and 1/4
RVals == {2 * k : k \in 0..MaxTwoR} \cup {1}

\* their last three arguments may be negative as well
RMVals == {2 * k : k \in -MaxTwoR..MaxTwoR} \cup {1}

\* arguments of wigner_9j: 0, 1/2 and 1
Vals9j == {0, 2, 4}

Args3j == JVals \X JVals \X JVals \X MVals \X MVals \X MVals

ArgsRacah == RVals \X RVals \X RVals \X RMVals \X RMVals \X RMVals

Args9j == [1..9 -> Vals9j]

\* arguments of gaunt: degrees -1, 0, 1, 2 and 1/2, orders -2, ..., 2 and 1/2
GauntLVals == {-4, 0, 4, 8, 2}

GauntMVals == {-8, -4, 0, 4, 8, 2}

ArgsGaunt == GauntLVals \X GauntLVals \X GauntLVals
                 \X GauntMVals \X GauntMVals \X GauntMVals

\* arguments of _big_delta_coeff
ArgsDelta == JVals \X JVals \X JVals

\* arguments of the calls made one after the other in Spec
SeqJVals == {0, 2, 4, 1}

SeqMVals == {-2, 0, 2, 1}

\* arguments of wigner_9j: 1/2 and 1
Seq9jVals == {2, 4}

\* degrees of gaunt: 0, 1, 2 and 1/2
SeqLVals == {0, 4, 8, 2}

\* nn of a direct _calc_factlist call: the integers -2..MaxNN and 5/2
NNVals == {4 * k : k \in -2..MaxNN} \cup {10}

---------------------------------------------------------------------------
(* Spec: calls made one after the other on the shared table *)

Init ==
    /\ _Factlist = <<1>>
    /\ last = "init"
    /\ args = <<>>
    /\ outcome = NoOutcome
    /\ ret = <<>>
    /\ thr = <<>>

\* a direct call _calc_factlist(nn)
CalcFactlist(nn) ==
    LET c == _calc_factlist(_Factlist, nn)
    IN  /\ _Factlist' = c.fact
        /\ last' = "_calc_factlist"
        /\ args' = <<nn>>
        /\ outcome' = IF c.err THEN TypeError ELSE Raise("list")
        /\ ret' = c.ret
        /\ UNCHANGED thr

\* what a call of a coefficient function leaves: the table and the kind of
\* its outcome
Called(name, r) ==
    /\ _Factlist' = r.fact
    /\ last' = name
    /\ args' = <<>>
    /\ outcome' = Raise(r.out.kind)
    /\ ret' = <<>>
    /\ UNCHANGED thr

CallWigner3j ==
    \E j_1, j_2, j_3 \in SeqJVals : \E m_1, m_2, m_3 \in SeqMVals :
        Called("wigner_3j", wigner_3j(_Factlist, j_1, j_2, j_3, m_1, m_2, m_3))

CallClebschGordan ==
    \E j_1, j_2, j_3 \in SeqJVals : \E m_1, m_2, m_3 \in SeqMVals :
        Called("clebsch_gordan",
               clebsch_gordan(_Factlist, j_1, j_2, j_3, m_1, m_2, m_3))

CallRacah ==
    \E aa, bb, cc, dd, ee, ff \in SeqJVals :
        Called("racah", racah(_Factlist, aa, bb, cc, dd, ee, ff))

CallWigner6j ==
    \E j_1, j_2, j_3, j_4, j_5, j_6 \in SeqJVals :
        Called("wigner_6j", wigner_6j(_Factlist, j_1, j_2, j_3, j_4, j_5, j_6))

CallWigner9j ==
    \E j \in [1..9 -> Seq9jVals] :
        Called("wigner_9j", wigner_9j(_Factlist, j))

CallGaunt ==
    \E l_1, l_2, l_3 \in SeqLVals : \E m_1, m_2, m_3 \in SeqMVals :
        Called("gaunt", gaunt(_Factlist, l_1, l_2, l_3, m_1, m_2, m_3))

Next ==
    \/ \E nn \in NNVals : CalcFactlist(nn)
    \/ CallWigner3j
    \/ CallClebschGordan
    \/ CallRacah
    \/ CallWigner6j
    \/ CallWigner9j
    \/ CallGaunt

Spec == Init /\ [][Next]_vars

---------------------------------------------------------------------------
(* SpecCoef: one call of a coefficient function, for every choice of its  *)
(* arguments and several states of the table                               *)

InitTables == {Table(0), Table(2), Table(MaxNN)}

InitCoef ==
    /\ _Factlist \in InitTables
    /\ last = "init"
    /\ args \in Args3j \cup ArgsRacah \cup Args9j \cup ArgsDelta \cup ArgsGaunt
    /\ outcome = NoOutcome
    /\ ret = <<>>
    /\ thr = <<>>

\* what the call under study leaves: the table and its outcome
Returned(name, r) ==
    /\ last = "init"
    /\ _Factlist' = r.fact
    /\ last' = name
    /\ outcome' = r.out
    /\ UNCHANGED <<args, ret, thr>>

DoWigner3j ==
    /\ args \in Args3j
    /\ Returned("wigner_3j",
                wigner_3j(_Factlist, args[1], args[2], args[3],
                          args[4], args[5], args[6]))

DoClebschGordan ==
    /\ args \in Args3j
    /\ Returned("clebsch_gordan",
                clebsch_gordan(_Factlist, args[1], args[2], args[3],
                               args[4], args[5], args[6]))

DoRacah ==
    /\ args \in ArgsRacah
    /\ Returned("racah",
                racah(_Factlist, args[1], args[2], args[3],
                      args[4], args[5], args[6]))

DoWigner6j ==
    /\ args \in ArgsRacah
    /\ Returned("wigner_6j",
                wigner_6j(_Factlist, args[1], args[2], args[3],
                          args[4], args[5], args[6]))

DoGaunt ==
    /\ args \in ArgsGaunt
    /\ Returned("gaunt",
                gaunt(_Factlist, args[1], args[2], args[3],
                      args[4], args[5], args[6]))

DoWigner9j ==
    /\ args \in Args9j
    /\ Returned("wigner_9j", wigner_9j(_Factlist, args))

DoBigDeltaCoeff ==
    /\ args \in ArgsDelta
    /\ Returned("_big_delta_coeff",
                _big_delta_coeff(_Factlist, args[1], args[2], args[3]))

NextCoef ==
    \/ DoWigner3j
    \/ DoClebschGordan
    \/ DoRacah
    \/ DoWigner6j
    \/ DoGaunt
    \/ DoWigner9j
    \/ DoBigDeltaCoeff

SpecCoef == InitCoef /\ [][NextCoef]_vars

---------------------------------------------------------------------------
(* SpecConc: callers running _calc_factlist at the same time on the shared *)
(* table.  The code takes no lock, so each evaluation of len(_Factlist),   *)
(* each read of an entry and each append is a step of its own, and the     *)
(* steps of the callers interleave.                                        *)

Threads == 1..NumThreads

\* a caller that is not inside _calc_factlist
Idle(calls, ret_) ==
    [pc |-> "idle", nn |-> 0, ii |-> 0, val |-> 0, calls |-> calls, ret |-> ret_]

InitConc ==
    /\ _Factlist = <<1>>
    /\ last = "init"
    /\ args = <<>>
    /\ outcome = NoOutcome
    /\ ret = <<>>
    /\ thr = [t \in Threads |-> Idle(0, <<>>)]

\* caller t enters _calc_factlist(nn)
ThreadCall(t, nn) ==
    /\ thr[t].pc \in {"idle", "done"}
    /\ thr[t].calls < MaxCalls
    /\ thr' = [thr EXCEPT ![t] = [pc |-> "test", nn |-> nn, ii |-> 0, val |-> 0,
                                  calls |-> thr[t].calls + 1, ret |-> <<>>]]
    /\ UNCHANGED <<_Factlist, last, args, outcome, ret>>

\* "if nn >= len(_Factlist):"
ThreadTest(t) ==
    /\ thr[t].pc = "test"
    /\ thr' = [thr EXCEPT ![t].pc =
                  IF thr[t].nn >= 4 * Len(_Factlist) THEN "range" ELSE "return"]
    /\ UNCHANGED <<_Factlist, last, args, outcome, ret>>

\* "range(len(_Factlist), nn + 1)": the first ii is the length read now
ThreadRange(t) ==
    /\ thr[t].pc = "range"
    /\ thr' = [thr EXCEPT ![t].pc = "for", ![t].ii = Len(_Factlist)]
    /\ UNCHANGED <<_Factlist, last, args, outcome, ret>>

\* "for ii in ...": the next ii, and "_Factlist[ii - 1] * ii" evaluated
ThreadRead(t) ==
    /\ thr[t].pc = "for"
    /\ thr[t].ii <= int(thr[t].nn)
    /\ thr' = [thr EXCEPT ![t].pc = "append",
                          ![t].val = Get(_Factlist, thr[t].ii - 1) * thr[t].ii]
    /\ UNCHANGED <<_Factlist, last, args, outcome, ret>>

\* "_Factlist.append(...)"
ThreadAppend(t) ==
    /\ thr[t].pc = "append"
    /\ _Factlist' = Append(_Factlist, thr[t].val)
    /\ thr' = [thr EXCEPT ![t].pc = "for", ![t].ii = thr[t].ii + 1]
    /\ UNCHANGED <<last, args, outcome, ret>>

\* the range is exhausted
ThreadLoopEnd(t) ==
    /\ thr[t].pc = "for"
    /\ thr[t].ii > int(thr[t].nn)
    /\ thr' = [thr EXCEPT ![t].pc = "return"]
    /\ UNCHANGED <<_Factlist, last, args, outcome, ret>>

\* "return _Factlist[:Integer(nn) + 1]"
ThreadReturn(t) ==
    /\ thr[t].pc = "return"
    /\ thr' = [thr EXCEPT ![t].pc = "done",
                          ![t].ret = Slice(_Factlist, int(thr[t].nn) + 1)]
    /\ UNCHANGED <<_Factlist, last, args, outcome, ret>>

NextConc ==
    \E t \in Threads :
        \/ \E k \in 0..MaxThreadNN : ThreadCall(t, 4 * k)
        \/ ThreadTest(t)
        \/ ThreadRange(t)
        \/ ThreadRead(t)
        \/ ThreadAppend(t)
        \/ ThreadLoopEnd(t)
        \/ ThreadReturn(t)

SpecConc == InitConc /\ [][NextConc]_vars

---------------------------------------------------------------------------
(* Claims *)

CoefficientFunctions ==
    {"wigner_3j", "clebsch_gordan", "racah", "wigner_6j", "wigner_9j", "gaunt"}

\* C1: after any sequence of calls of _calc_factlist and of the coefficient
\* functions, started from the initial table, the table is not empty and
\* every index i of it holds exactly i!
C1_TableHoldsFactorials ==
    /\ Len(_Factlist) >= 1
    /\ \A i \in 1..Len(_Factlist) : _Factlist[i] = Factorial(i - 1)

\* a coefficient function has run and the table reaches beyond index 4
C1_Witness ==
    /\ last \in CoefficientFunctions
    /\ Len(_Factlist) >= 6
    /\ outcome.kind \in {"value", "sum", "value_per_sqrt_pi"}

\* C2: a call _calc_factlist(n) with an integer n >= 0 removes and changes no
\* entry, leaves the table as it is when n is below its length, leaves it
\* with length n + 1 otherwise (new length = max(old length, n + 1)), and a
\* second call with the same n changes nothing
C2_AppendOnly ==
    [][ (last' = "_calc_factlist" /\ args'[1] >= 0 /\ args'[1] % 4 = 0) =>
            LET n == args'[1] \div 4
                old == Len(_Factlist)
            IN  /\ Len(_Factlist') >= old
                /\ \A i \in 1..old : _Factlist'[i] = _Factlist[i]
                /\ (n < old => _Factlist' = _Factlist)
                /\ (n >= old => Len(_Factlist') = n + 1)
                /\ Len(_Factlist') = Max2(old, n + 1)
                /\ ((last = "_calc_factlist" /\ args = args')
                        => _Factlist' = _Factlist)
      ]_vars

\* _calc_factlist(2) has grown the table to exactly three entries
C2_Witness ==
    /\ last = "_calc_factlist"
    /\ args = <<8>>
    /\ _Factlist = <<1, 1, 2>>
    /\ ret = <<1, 1, 2>>

\* the outcome of the call name(a) run on table F
Apply(name, F, a) ==
    CASE name = "wigner_3j" -> wigner_3j(F, a[1], a[2], a[3], a[4], a[5], a[6]).out
      [] name = "clebsch_gordan" ->
             clebsch_gordan(F, a[1], a[2], a[3], a[4], a[5], a[6]).out
      [] name = "racah" -> racah(F, a[1], a[2], a[3], a[4], a[5], a[6]).out
      [] name = "wigner_6j" -> wigner_6j(F, a[1], a[2], a[3], a[4], a[5], a[6]).out
      [] name = "gaunt" -> gaunt(F, a[1], a[2], a[3], a[4], a[5], a[6]).out
      [] name = "wigner_9j" -> wigner_9j(F, a).out

\* C3: the outcome of a coefficient function depends on its arguments only,
\* not on the table before the call: whatever table the earlier calls left,
\* the outcome is the one of the same call made first of all, and the same
\* call made once more gives it again
C3_OutcomeIndependentOfTable ==
    last \in CoefficientFunctions =>
        /\ outcome = Apply(last, <<1>>, args)
        /\ outcome = Apply(last, _Factlist, args)

\* racah returned a nonzero value from a table that earlier calls had grown
\* beyond anything it needs
C3_Witness ==
    /\ last = "racah"
    /\ outcome.kind = "value"
    /\ outcome.sgn # 0
    /\ Len(_Factlist) = MaxNN + 1

\* C4: when callers run _calc_factlist concurrently, interleaved at the
\* level of the length reads and appends, no entry is duplicated or
\* corrupted (index i holds i!) and every caller that has returned got the
\* nn + 1 entries 0! .. nn! it asked for
C4_ConcurrentGrowthIsSafe ==
    thr # <<>> =>
        /\ \A i \in 1..Len(_Factlist) : _Factlist[i] = Factorial(i - 1)
        /\ \A t \in DOMAIN thr :
              thr[t].pc = "done" =>
                  /\ Len(_Factlist) >= int(thr[t].nn) + 1
                  /\ thr[t].ret = Table(int(thr[t].nn))

\* x is an integer or a half-integer
HalfInteger(x) == x % 2 = 0

\* the triangle inequality fails for j1, j2, j3
TriangleFails(j1, j2, j3) == j1 + j2 - j3 < 0 \/ j1 - j2 + j3 < 0 \/ -j1 + j2 + j3 < 0

\* C5: for integer-or-half-integer arguments wigner_3j returns exactly 0,
\* without raising, whenever m1+m2+m3 != 0, or one of j1+j2-j3, j1-j2+j3,
\* -j1+j2+j3 is negative, or |m_i| > j_i for some i
C5_SelectionRulesReturnZero ==
    ( /\ last = "wigner_3j"
      /\ \A i \in 1..6 : HalfInteger(args[i])
      /\ \/ args[4] + args[5] + args[6] # 0
         \/ TriangleFails(args[1], args[2], args[3])
         \/ \E i \in 1..3 : Abs(args[i + 3]) > args[i] )
    => outcome = Zero

\* wigner_3j(1, 1/2, 1/2, 1/2, -1/2, 1/2) returned 0: only the sum of the m
\* is wrong
C5_Witness ==
    /\ last = "wigner_3j"
    /\ args = <<4, 2, 2, 2, -2, 2>>
    /\ outcome = Zero

\* C6: wigner_3j raises the j-kind error whenever some j argument is not an
\* integer or half-integer, and the m-kind error whenever all j arguments are
\* but some m argument is not; an invalid argument is never a 0 result, even
\* when a selection rule fails too
C6_ValidationComesFirst ==
    last = "wigner_3j" =>
        /\ (\E i \in 1..3 : ~HalfInteger(args[i])) => outcome = JError
        /\ ( /\ \A i \in 1..3 : HalfInteger(args[i])
             /\ \E i \in 4..6 : ~HalfInteger(args[i]) ) => outcome = MError

\* wigner_3j(1/4, 0, 3/2, 1/4, 0, 0): j_1 and m_1 are both invalid and the
\* triangle and sum rules fail; the j-kind error is raised
C6_Witness ==
    /\ last = "wigner_3j"
    /\ args = <<1, 0, 6, 1, 0, 0>>
    /\ outcome = JError

\* C7: for six integer-or-half-integer arguments wigner_3j, and
\* clebsch_gordan through it, returns a value or raises one of the two
\* validation errors; nothing else is raised: _calc_factlist gets no
\* non-integer bound and no factorial index is outside the table
C7_OnlyValidationErrors ==
    ( /\ last \in {"wigner_3j", "clebsch_gordan"}
      /\ \A i \in 1..6 : HalfInteger(args[i]) )
    => outcome.kind \in {"value", "ValueError_j", "ValueError_m"}

\* the valid inputs of the symmetry relations: half-integer j's and m's with
\* j1+j2+j3 an integer and each j_i - m_i an integer
Valid3j(a) ==
    /\ \A i \in 1..6 : HalfInteger(a[i])
    /\ IsIntegral(a[1] + a[2] + a[3])
    /\ \A i \in 1..3 : IsIntegral(a[i] - a[i + 3])

\* the columns of a taken in the order p
Columns(a, p) == << a[p[1]], a[p[2]], a[p[3]], a[p[1] + 3], a[p[2] + 3], a[p[3] + 3] >>

\* the m's of a negated
Inflected(a) == << a[1], a[2], a[3], -a[4], -a[5], -a[6] >>

\* what wigner_3j gives for the six arguments a
W3j(a) == wigner_3j(_Factlist, a[1], a[2], a[3], a[4], a[5], a[6]).out

\* (-1)^(j1+j2+j3) * v for an outcome v and integer j1+j2+j3
SignedByJ(a, v) ==
    IF v.kind # "value" THEN v
    ELSE [v EXCEPT !.sgn = MinusOnePow((a[1] + a[2] + a[3]) \div 4) * v.sgn]

\* C8: for valid inputs wigner_3j is invariant under a cyclic permutation of
\* its three (j, m) columns and is (-1)^(j1+j2+j3) times its value after any
\* two columns are swapped
C8_ColumnPermutations ==
    (last = "wigner_3j" /\ Valid3j(args)) =>
        /\ outcome = W3j(Columns(args, <<2, 3, 1>>))
        /\ outcome = W3j(Columns(args, <<3, 1, 2>>))
        /\ outcome = SignedByJ(args, W3j(Columns(args, <<2, 1, 3>>)))
        /\ outcome = SignedByJ(args, W3j(Columns(args, <<1, 3, 2>>)))
        /\ outcome = SignedByJ(args, W3j(Columns(args, <<3, 2, 1>>)))

\* wigner_3j(1, 1/2, 3/2, 1, 1/2, -3/2) = 1/2, equal to its cyclic
\* permutations and, j1+j2+j3 being odd, the negative of the value after a swap
C8_Witness ==
    /\ last = "wigner_3j"
    /\ args = <<4, 2, 6, 4, 2, -6>>
    /\ outcome = Value(1, Rat(1, 4))
    /\ W3j(Columns(args, <<2, 1, 3>>)) = Value(-1, Rat(1, 4))
    /\ W3j(Columns(args, <<2, 3, 1>>)) = outcome

\* C9: for valid inputs wigner_3j(j1,j2,j3,m1,m2,m3) is (-1)^(j1+j2+j3)
\* times wigner_3j(j1,j2,j3,-m1,-m2,-m3)
C9_SpaceInflection ==
    (last = "wigner_3j" /\ Valid3j(args)) =>
        outcome = SignedByJ(args, W3j(Inflected(args)))

\* wigner_3j(1, 1, 1, 1, -1, 0) is nonzero and, j1+j2+j3 being odd, the
\* negative of wigner_3j(1, 1, 1, -1, 1, 0)
C9_Witness ==
    /\ last = "wigner_3j"
    /\ args = <<4, 4, 4, 4, -4, 0>>
    /\ outcome.sgn # 0
    /\ W3j(Inflected(args)).sgn = -outcome.sgn
    /\ W3j(Inflected(args)).num = outcome.num

\* C10: clebsch_gordan(j1,j2,j3,m1,m2,m3) is (-1)^(j1-j2+m3) * sqrt(2*j3+1)
\* * wigner_3j(j1,j2,j3,m1,m2,-m3) for all inputs: it raises what wigner_3j
\* raises and nothing else, is 0 where wigner_3j is 0, and has the sign
\* (-1)^(j1-j2+m3), which is real only for an integer j1-j2+m3;
\* clebsch_gordan(3/2,1/2,1,-1/2,1/2,0) is -sqrt(3)*sqrt(1/6)
C10_ClebschGordanRelation ==
    last = "clebsch_gordan" =>
        LET w == W3j(<<args[1], args[2], args[3], args[4], args[5], -args[6]>>)
            e == args[1] - args[2] + args[6]
        IN  /\ w.kind # "value" => outcome = w
            /\ (w.kind = "value" /\ IsIntegral(e)) =>
                   outcome = ValMul(Value(MinusOnePow(e \div 4),
                                          Rat(2 * args[3] + 4, 4)), w)
            /\ (w.kind = "value" /\ ~IsIntegral(e)) => (w = Zero /\ outcome = Zero)
            /\ args = <<6, 2, 4, -2, 2, 0>> => outcome = Value(-1, Rat(1, 2))

\* the value 1
One == Value(1, Rat(1, 1))

\* C11: for integer-or-half-integer j1, j2 >= 0 the stretched coefficient
\* clebsch_gordan(j1, j2, j1+j2, j1, j2, j1+j2) is exactly 1
C11_StretchedStateIsOne ==
    ( /\ last = "clebsch_gordan"
      /\ HalfInteger(args[1]) /\ args[1] >= 0
      /\ HalfInteger(args[2]) /\ args[2] >= 0
      /\ args[3] = args[1] + args[2]
      /\ args[4] = args[1]
      /\ args[5] = args[2]
      /\ args[6] = args[1] + args[2] )
    => outcome = One

\* clebsch_gordan(1, 1/2, 3/2, 1, 1/2, 3/2) returned 1
C11_Witness ==
    /\ last = "clebsch_gordan"
    /\ args = <<4, 2, 6, 4, 2, 6>>
    /\ outcome = One

\* C12: _big_delta_coeff(aa, bb, cc) raises the validation error exactly
\* when one of aa+bb-cc, aa+cc-bb, bb+cc-aa is not an integer, whatever the
\* signs; otherwise it returns 0 when one of the three is negative, and
\* otherwise the positive sqrt((aa+bb-cc)!(aa+cc-bb)!(bb+cc-aa)!/(aa+bb+cc+1)!)
C12_BigDeltaCoeff ==
    last = "_big_delta_coeff" =>
        LET x == args[1] + args[2] - args[3]
            y == args[1] + args[3] - args[2]
            z == args[2] + args[3] - args[1]
        IN  IF ~IsIntegral(x) \/ ~IsIntegral(y) \/ ~IsIntegral(z)
            THEN outcome = TriangleError
            ELSE IF x < 0 \/ y < 0 \/ z < 0
            THEN outcome = Zero
            ELSE /\ outcome = Value(1, Rat(Factorial(x \div 4) * Factorial(y \div 4)
                                              * Factorial(z \div 4),
                                           Factorial((x + y + z) \div 4 + 1)))
                 /\ outcome.sgn = 1

\* _big_delta_coeff(1, 1, 1) returned sqrt(1/24)
C12_Witness ==
    /\ last = "_big_delta_coeff"
    /\ args = <<4, 4, 4>>
    /\ outcome = Value(1, Rat(1, 24))

\* the four triples racah hands to _big_delta_coeff
RacahTriples(a) ==
    << <<a[1], a[2], a[5]>>, <<a[3], a[4], a[5]>>,
       <<a[1], a[3], a[6]>>, <<a[2], a[4], a[6]>> >>

\* aa+bb-cc, aa+cc-bb and bb+cc-aa are integers
TripleIntegral(t) ==
    /\ IsIntegral(t[1] + t[2] - t[3])
    /\ IsIntegral(t[1] + t[3] - t[2])
    /\ IsIntegral(t[2] + t[3] - t[1])

\* C13 as stated: racah returns 0 without raising whenever one of the four
\* triples (a,b,e), (c,d,e), (a,c,f), (b,d,f) fails the triangle inequality,
\* whatever the other three triples are
C13_ZeroOnAnyTriangleFailure ==
    ( /\ last = "racah"
      /\ \E k \in 1..4 : LET t == RacahTriples(args)[k]
                         IN  TriangleFails(t[1], t[2], t[3]) )
    => outcome = Zero

\* C13, amended: racah returns 0 without raising whenever one of the four
\* triples fails the triangle inequality and the three combinations of every
\* triple are integers; when those of some triple are not, it raises the
\* validation error, also when another triple fails the triangle inequality
C13_ZeroOnTriangleFailureOfValidTriples ==
    last = "racah" =>
        /\ ( /\ \A k \in 1..4 : TripleIntegral(RacahTriples(args)[k])
             /\ \E k \in 1..4 : LET t == RacahTriples(args)[k]
                                IN  TriangleFails(t[1], t[2], t[3]) )
           => outcome = Zero
        /\ (\E k \in 1..4 : ~TripleIntegral(RacahTriples(args)[k]))
           => outcome = TriangleError

\* racah(0, 0, 1, 1, 1, 1) returned 0: only the triple (0, 0, 1) fails
C13_Witness ==
    /\ last = "racah"
    /\ args = <<0, 0, 4, 4, 4, 4>>
    /\ outcome = Zero

\* Delta(t)^2 = (x+y-z)! (x+z-y)! (y+z-x)! / (x+y+z+1)! for a triple t
\* whose three combinations are integers >= 0
DeltaSquared(t) ==
    Rat(Factorial((t[1] + t[2] - t[3]) \div 4) * Factorial((t[1] + t[3] - t[2]) \div 4)
            * Factorial((t[2] + t[3] - t[1]) \div 4),
        Factorial((t[1] + t[2] + t[3]) \div 4 + 1))

\* the summand k of the Racah formula: (-1)^k (k+1)! over the seven
\* factorials, every argument being an integer
RacahSummand(k, a) ==
    Rat(MinusOnePow(k) * Factorial(k + 1),
        Factorial(k - (a[1] + a[2] + a[5]) \div 4)
            * Factorial(k - (a[3] + a[4] + a[5]) \div 4)
            * Factorial(k - (a[1] + a[3] + a[6]) \div 4)
            * Factorial(k - (a[2] + a[4] + a[6]) \div 4)
            * Factorial((a[1] + a[2] + a[3] + a[4]) \div 4 - k)
            * Factorial((a[1] + a[4] + a[5] + a[6]) \div 4 - k)
            * Factorial((a[2] + a[3] + a[5] + a[6]) \div 4 - k))

\* the sum of the summands k..kmax
RECURSIVE RacahSum(_, _, _)
RacahSum(k, kmax, a) ==
    IF k > kmax THEN Rat(0, 1)
    ELSE RatAdd(RacahSummand(k, a), RacahSum(k + 1, kmax, a))

\* the Racah formula for arguments a whose four triples are valid
RacahFormula(a) ==
    LET T == RacahTriples(a)
        kmin == Max4(a[1] + a[2] + a[5], a[3] + a[4] + a[5],
                     a[1] + a[3] + a[6], a[2] + a[4] + a[6]) \div 4
        kmax == Min3(a[1] + a[2] + a[3] + a[4], a[1] + a[4] + a[5] + a[6],
                     a[2] + a[3] + a[5] + a[6]) \div 4
        sum == RacahSum(kmin, kmax, a)
        deltas == RatMul(RatMul(DeltaSquared(T[1]), DeltaSquared(T[2])),
                         RatMul(DeltaSquared(T[3]), DeltaSquared(T[4])))
    IN  Value(Sign(sum.num) * MinusOnePow((a[1] + a[2] + a[3] + a[4]) \div 4),
              RatMul(deltas, RatMul(sum, sum)))

\* the four triples of a have integer combinations and fulfil the triangle
\* inequality
RacahValid(a) ==
    \A k \in 1..4 : LET t == RacahTriples(a)[k]
                    IN  TripleIntegral(t) /\ ~TriangleFails(t[1], t[2], t[3])

\* C14: racah returns the product of the four Delta coefficients times the
\* sum over k from max(a+b+e, c+d+e, a+c+f, b+d+f) to min(a+b+c+d, a+d+e+f,
\* b+c+e+f) of (-1)^k (k+1)! over the seven factorials, times
\* (-1)^(a+b+c+d); wigner_6j(j1..j6) is (-1)^(j1+j2+j4+j5) times
\* racah(j1,j2,j5,j4,j3,j6); wigner_6j(1/2,1/2,1,1/2,1/2,1) = 1/6
C14_RacahFormula ==
    /\ (last = "racah" /\ RacahValid(args)) => outcome = RacahFormula(args)
    /\ last = "wigner_6j" =>
           LET a == <<args[1], args[2], args[5], args[4], args[3], args[6]>>
               e == args[1] + args[2] + args[4] + args[5]
               w == Apply("racah", _Factlist, a)
           IN  /\ w.kind # "value" => outcome = w
               /\ w = Zero => outcome = Zero
               /\ (w.kind = "value" /\ w # Zero) =>
                      /\ IsIntegral(e)
                      /\ outcome = [w EXCEPT !.sgn = MinusOnePow(e \div 4) * w.sgn]
               /\ RacahValid(a) =>
                      outcome = [RacahFormula(a) EXCEPT
                                    !.sgn = MinusOnePow(e \div 4) * RacahFormula(a).sgn]
               /\ args = <<2, 2, 4, 2, 2, 4>> => outcome = Value(1, Rat(1, 36))

\* wigner_6j(1/2, 1/2, 1, 1/2, 1/2, 1) returned 1/6
C14_Witness ==
    /\ last = "wigner_6j"
    /\ args = <<2, 2, 4, 2, 2, 4>>
    /\ outcome = Value(1, Rat(1, 36))

\* what wigner_6j gives for the six arguments a
W6j(a) == wigner_6j(_Factlist, a[1], a[2], a[3], a[4], a[5], a[6]).out

\* the columns (j1,j4), (j2,j5), (j3,j6) of a taken in the order p
Columns6j(a, p) == << a[p[1]], a[p[2]], a[p[3]], a[p[1] + 3], a[p[2] + 3], a[p[3] + 3] >>

\* the upper and lower arguments of a exchanged in the two columns other
\* than column c
Exchanged6j(a, c) ==
    [i \in 1..6 |-> IF i = c \/ i = c + 3 THEN a[i]
                    ELSE IF i <= 3 THEN a[i + 3] ELSE a[i - 3]]

\* C15: for integer-or-half-integer arguments wigner_6j is invariant under
\* every permutation of its three columns and under the exchange of the
\* upper and lower arguments in any two columns; when the call returns 0 or
\* raises, so does the permuted call
C15_Symmetries6j ==
    (last = "wigner_6j" /\ \A i \in 1..6 : HalfInteger(args[i])) =>
        /\ \A p \in {<<2, 3, 1>>, <<3, 1, 2>>, <<2, 1, 3>>, <<1, 3, 2>>, <<3, 2, 1>>} :
              outcome = W6j(Columns6j(args, p))
        /\ \A c \in 1..3 : outcome = W6j(Exchanged6j(args, c))

\* wigner_6j(1, 1/2, 1/2, 0, 1/2, 1/2) is nonzero and equal to
\* wigner_6j(1/2, 1/2, 1, 1/2, 1/2, 0) and to wigner_6j(0, 1/2, 1/2, 1, 1/2, 1/2)
C15_Witness ==
    /\ last = "wigner_6j"
    /\ args = <<4, 2, 2, 0, 2, 2>>
    /\ outcome.sgn # 0
    /\ W6j(Columns6j(args, <<2, 3, 1>>)) = outcome
    /\ Columns6j(args, <<2, 3, 1>>) = <<2, 2, 4, 2, 2, 0>>
    /\ W6j(Exchanged6j(args, 3)) = outcome
    /\ Exchanged6j(args, 3) = <<0, 2, 2, 4, 2, 2>>

\* the rows and columns of the nine arguments a
Triads9j(a) ==
    { <<a[1], a[2], a[3]>>, <<a[4], a[5], a[6]>>, <<a[7], a[8], a[9]>>,
      <<a[1], a[4], a[7]>>, <<a[2], a[5], a[8]>>, <<a[3], a[6], a[9]>> }

\* C16: wigner_9j raises only when an argument is not an integer or
\* half-integer or a row or column does not fulfil the triangle relation:
\* for nine integer-or-half-integer arguments whose rows and columns each
\* have an integer sum and satisfy the triangle inequality, also when j1+j9
\* is a half-integer, it returns a value, the sum over k from 0 to
\* min(j1+j9, j2+j6, j4+j8) of (2k+1) times the three Racah coefficients
C16_Valid9jReturnsValue ==
    ( /\ last = "wigner_9j"
      /\ \A i \in 1..9 : HalfInteger(args[i])
      /\ \A t \in Triads9j(args) :
            IsIntegral(t[1] + t[2] + t[3]) /\ ~TriangleFails(t[1], t[2], t[3]) )
    => outcome.kind \in {"value", "sum"}

\* some selection rule of gaunt fails for the integer arguments a
GauntRuleFails(a) ==
    \/ (a[1] + a[2] + a[3]) % 8 # 0
    \/ TriangleFails(a[1], a[2], a[3])
    \/ a[4] + a[5] + a[6] # 0
    \/ \E i \in 1..3 : Abs(a[i + 3]) > a[i]

\* C17: for integer arguments gaunt returns exactly 0 without raising
\* whenever l1+l2+l3 is odd, or one of l1+l2-l3, l1-l2+l3, -l1+l2+l3 is
\* negative, or m1+m2+m3 != 0, or |m_i| > l_i for some i, and it then leaves
\* the factorial table as it was
C17_GauntSelectionRules ==
    [][ ( /\ last' = "gaunt"
          /\ \A i \in 1..6 : IsIntegral(args'[i])
          /\ GauntRuleFails(args') )
        => (outcome' = Zero /\ _Factlist' = _Factlist) ]_vars

\* gaunt(1, 1, 1, 0, 0, 0) returned 0 on the table [1], which is still [1]:
\* l1+l2+l3 is odd and every other rule passes
C17_Witness ==
    /\ last = "gaunt"
    /\ args = <<4, 4, 4, 0, 0, 0>>
    /\ outcome = Zero
    /\ _Factlist = <<1>>

\* sqrt((2l1+1)(2l2+1)(2l3+1)/(4 pi)) * v * w for two values v and w
GauntFrom3j(a, v, w) ==
    ValuePerSqrtPi(v.sgn * w.sgn,
                   RatMul(Rat((a[1] \div 2 + 1) * (a[2] \div 2 + 1) * (a[3] \div 2 + 1), 4),
                          RatMul([num |-> v.num, den |-> v.den],
                                 [num |-> w.num, den |-> w.den])))

\* C18: for integer arguments the value gaunt computes is
\* sqrt((2l1+1)(2l2+1)(2l3+1)/(4 pi)) * wigner_3j(l1,l2,l3,0,0,0) *
\* wigner_3j(l1,l2,l3,m1,m2,m3), sign included; gaunt(1,0,1,1,0,-1) is
\* -1/(2 sqrt(pi)) and gaunt(1,0,1,1,0,0) is 0
C18_GauntIsProductOf3j ==
    (last = "gaunt" /\ \A i \in 1..6 : IsIntegral(args[i])) =>
        LET v == W3j(<<args[1], args[2], args[3], 0, 0, 0>>)
            w == W3j(args)
        IN  /\ v.kind = "value"
            /\ w.kind = "value"
            /\ outcome = GauntFrom3j(args, v, w)
            /\ args = <<4, 0, 4, 4, 0, -4>> => outcome = ValuePerSqrtPi(-1, Rat(1, 4))
            /\ args = <<4, 0, 4, 4, 0, 0>> => outcome = Zero

\* gaunt(1, 0, 1, 1, 0, -1) returned -1/(2 sqrt(pi))
C18_Witness ==
    /\ last = "gaunt"
    /\ args = <<4, 0, 4, 4, 0, -4>>
    /\ outcome = ValuePerSqrtPi(-1, Rat(1, 4))

\* the six arguments a pass the validation and every selection rule of
\* wigner_3j
Passes3j(a) ==
    /\ \A i \in 1..6 : HalfInteger(a[i])
    /\ a[4] + a[5] + a[6] = 0
    /\ ~TriangleFails(a[1], a[2], a[3])
    /\ \A i \in 1..3 : Abs(a[i + 3]) <= a[i]

\* C19: for every input that passes the validation and the selection rules
\* of wigner_3j the summation range is not empty, imin <= imax; the same
\* holds for the range of gaunt
C19_SummationRangeNotEmpty ==
    /\ (last = "wigner_3j" /\ Passes3j(args)) =>
           Imin3j(args[1], args[2], args[3], args[4], args[5])
               <= Imax3j(args[1], args[2], args[3], args[4], args[5])
    /\ ( /\ last = "gaunt"
         /\ \A i \in 1..6 : IsIntegral(args[i])
         /\ ~GauntRuleFails(args) ) =>
           IminGaunt(args[1], args[2], args[3], args[4], args[5])
               <= ImaxGaunt(args[1], args[2], args[3], args[4], args[5])

\* wigner_3j(1, 1, 1, 0, 0, 0) has summed over ii = 0, 1
C19_Witness ==
    /\ last = "wigner_3j"
    /\ args = <<4, 4, 4, 0, 0, 0>>
    /\ outcome.kind = "value"
    /\ Imin3j(args[1], args[2], args[3], args[4], args[5]) = 0
    /\ Imax3j(args[1], args[2], args[3], args[4], args[5]) = 1

\* C20: for every integer nn >= 0, whatever the length of the table,
\* _calc_factlist(nn) returns the list of exactly nn + 1 entries
\* [0!, 1!, ..., nn!], never the whole of a longer table
C20_ReturnsFirstEntries ==
    (last = "_calc_factlist" /\ IsIntegral(args[1]) /\ args[1] >= 0) =>
        /\ Len(ret) = args[1] \div 4 + 1
        /\ \A i \in 1..Len(ret) : ret[i] = Factorial(i - 1)

\* _calc_factlist(2) returned [1, 1, 2] from a table of more than 3 entries
C20_Witness ==
    /\ last = "_calc_factlist"
    /\ args = <<8>>
    /\ Len(_Factlist) > 3
    /\ ret = <<1, 1, 2>>

\* C21: for every racah call in which none of the four Delta coefficients
\* raises and all are nonzero, the six arguments are integers or
\* half-integers, imin <= imax, and every factorial argument of the sum
\* (k + 1, the four k-minus-triple-sum terms and the three
\* quadruple-sum-minus-k terms, for k in imin..imax) is an exact integer,
\* not negative and not larger than the bound maxfact passed to
\* _calc_factlist; the call returns a value and raises nothing
C21_RacahIndicesExact ==
    (last = "racah" /\ RacahValid(args)) =>
        LET imin == IminRacah(args[1], args[2], args[3], args[4], args[5], args[6])
            imax == ImaxRacah(args[1], args[2], args[3], args[4], args[5], args[6])
            maxfact == MaxfactRacah(args[1], args[2], args[3], args[4], args[5], args[6])
        IN  /\ \A i \in 1..6 : HalfInteger(args[i])
            /\ imin <= imax
            /\ IsIntegral(maxfact)
            /\ \A kk \in imin..imax : \A k \in 1..8 :
                   LET x == SummandArgsRacah(kk, args[1], args[2], args[3],
                                             args[4], args[5], args[6])[k]
                   IN  IsIntegral(x) /\ x >= 0 /\ x <= maxfact
            /\ outcome.kind = "value"

\* racah(1/2, 1/2, 1/2, 1/2, 1, 1) has summed over k = 2 with maxfact = 3
C21_Witness ==
    /\ last = "racah"
    /\ args = <<2, 2, 2, 2, 4, 4>>
    /\ RacahValid(args)
    /\ IminRacah(2, 2, 2, 2, 4, 4) = 2
    /\ ImaxRacah(2, 2, 2, 2, 4, 4) = 2
    /\ MaxfactRacah(2, 2, 2, 2, 4, 4) = 12
    /\ outcome.kind = "value"
    /\ outcome.sgn # 0

\* C22: for every input that passes the validation and every selection rule
\* of wigner_3j, every factorial argument (j1+j2-j3, j1-j2+j3, -j1+j2+j3,
\* j_i-m_i, j_i+m_i, j1+j2+j3+1 and the six arguments of each summand) is an
\* exact integer and not negative, so int() truncates nothing, and
\* wigner_3j returns a nonzero value only when j1+j2+j3 and every j_i-m_i
\* are integers
C22_FactorialArgumentsExact ==
    (last = "wigner_3j" /\ Passes3j(args)) =>
        LET imin == Imin3j(args[1], args[2], args[3], args[4], args[5])
            imax == Imax3j(args[1], args[2], args[3], args[4], args[5])
        IN  /\ \A k \in 1..10 :
                   LET x == ArgsqrtArgs3j(args[1], args[2], args[3],
                                          args[4], args[5], -args[6])[k]
                   IN  IsIntegral(x) /\ x >= 0
            /\ \A ii \in imin..imax : \A k \in 1..6 :
                   LET x == SummandArgs3j(ii, args[1], args[2], args[3],
                                          args[4], args[5], -args[6])[k]
                   IN  IsIntegral(x) /\ x >= 0
            /\ (outcome.kind = "value" /\ outcome.sgn # 0) =>
                   /\ IsIntegral(args[1] + args[2] + args[3])
                   /\ \A i \in 1..3 : IsIntegral(args[i] - args[i + 3])

============================================================================
